---- MODULE Spec2Model ----
(***************************************************************************)
(* A model of the okresult package: the Ok/Err result container and its    *)
(* combinators (okresult/result.py), the tagged errors and Panic           *)
(* (okresult/error.py) and the safe / safe_async execution wrappers        *)
(* (okresult/safe.py), with the class-based TaggedError.match of the       *)
(* resultpy package (resultpy/error.py).                                   *)
(*                                                                         *)
(* Python values are records whose field names tell their type, so that    *)
(* any two values can be compared:                                         *)
(*   [none |-> TRUE]                 None                                  *)
(*   [notset |-> TRUE]               the _NOT_SET sentinel                 *)
(*   [int |-> n]                     an int                                *)
(*   [str |-> <<chunk, ...>>]        a str (a sequence of text chunks)     *)
(*   [fn |-> name]                   a caller-supplied callable            *)
(*   [lambda |-> name, fn |-> f]     a closure returned by a curried call  *)
(*   [exc |-> class, msg |-> str]    a plain Exception instance            *)
(*   [tag, message, cause, non_exception_cause]   a TaggedError instance   *)
(*   [status, value, oid]            an Ok / Err instance (oid = identity) *)
(*   [dict |-> f]                    a dict, f a function on its keys      *)
(* A call's outcome is [kind |-> "ret" | "raise", val, calls]: the value   *)
(* returned or the exception raised, and the callback invocations the call *)
(* made, in order.  Faults are instances of Exception (the type the catch  *)
(* handler of safe is declared to receive).                                *)
(***************************************************************************)
EXTENDS Integers, Sequences, FiniteSets, TLC

(* ---- bounds of the model ---- *)
MaxVal == 1          \* held int values are drawn from 0..MaxVal
MaxChain == 2        \* combinator calls applied in one chain
MaxPrefix == 1       \* combinator calls made before unwrap_err or match
MaxTimes == 3        \* retry.times is drawn from 0..MaxTimes
MaxDelayMs == 100    \* retry.delay_ms is drawn from {0, 1, MaxDelayMs}

(* the value of the chaining example of the tests (Ok(5) doubled, then     *)
(* incremented)                                                            *)
ExampleVal == 5

(* ---- Python values ---- *)
None == [none |-> TRUE]
NOT_SET == [notset |-> TRUE]
PyInt(n) == [int |-> n]
(* a str literal; the empty str has no chunks *)
S(text) == IF text = "" THEN [str |-> <<>>] ELSE [str |-> <<text>>]
Concat(a, b) == [str |-> a.str \o b.str]
Fn(name) == [fn |-> name]
Exc(cls, text) == [exc |-> cls, msg |-> S(text)]

IsInt(v) == "int" \in DOMAIN v
IsResult(v) == "status" \in DOMAIN v
IsTagged(v) == "tag" \in DOMAIN v
IsPlainExc(v) == "exc" \in DOMAIN v

(* isinstance(value, Exception)  -- TaggedError.is_error *)
is_error(v) == IsPlainExc(v) \/ IsTagged(v)

(* isinstance(value, Exception) and isinstance(value, TaggedError) *)
is_tagged_error(v) == is_error(v) /\ IsTagged(v)

(* ---- outcomes of a call ---- *)
Ret(v, calls) == [kind |-> "ret", val |-> v, calls |-> calls]
Raise(e, calls) == [kind |-> "raise", val |-> e, calls |-> calls]
NoOutcome == [kind |-> "none", val |-> None, calls |-> <<>>]

(* ---- okresult/error.py ---- *)

(* TaggedError.__init__: an exception cause is chained through __cause__,  *)
(* any other cause is kept in _non_exception_cause (None as the str        *)
(* "None").                                                                *)
TaggedError(tag, message, cause) ==
    IF is_error(cause)
    THEN [tag |-> tag, message |-> message,
          non_exception_cause |-> NOT_SET, cause |-> cause]
    ELSE [tag |-> tag, message |-> message,
          non_exception_cause |-> IF cause = None THEN S("None") ELSE cause,
          cause |-> None]

(* TaggedError.__getattribute__("__cause__") *)
get_cause(e) ==
    IF e.non_exception_cause # NOT_SET THEN e.non_exception_cause ELSE e.cause

(* str(value) for the values a message is built from *)
str(v) ==
    IF IsTagged(v) THEN v.message
    ELSE IF IsPlainExc(v) THEN v.msg
    ELSE IF "str" \in DOMAIN v THEN v
    ELSE IF IsInt(v) THEN S(ToString(v.int))
    ELSE S("None")

UnhandledExceptionDropsCause(cause) ==
    TaggedError("UnhandledException",
                Concat(S("Unhandled exception: "), str(cause)), None)

UnhandledException(cause) ==
    TaggedError("UnhandledException",
                Concat(S("Unhandled exception: "), str(cause)), cause)

Panic(message, cause) == TaggedError("Panic", message, cause)

is_panic(v) == IsTagged(v) /\ v.tag = "Panic"

(* panic(message, cause): always raises *)
panic(message, cause) == Raise(Panic(message, cause), <<>>)

(* ---- okresult/result.py: the container ---- *)
Ok(value, oid) == [status |-> "ok", value |-> value, oid |-> oid]
Err(value, oid) == [status |-> "err", value |-> value, oid |-> oid]

is_ok(r) == r.status = "ok"
is_err(r) == r.status = "err"

(* Ok.__eq__ / Err.__eq__: same class and equal held values *)
Result_eq(a, b) == IsResult(b) /\ a.status = b.status /\ a.value = b.value

(* try_or_panic / try_or_panic_async: a raised Exception becomes a Panic   *)
(* with the given message and the exception as cause.                      *)
try_or_panic(o, message) ==
    IF o.kind = "raise" /\ is_error(o.val)
    THEN Raise(Panic(S(message), o.val), o.calls)
    ELSE o

try_or_panic_async(o, message) == try_or_panic(o, message)

(* ---- caller-supplied callbacks ---- *)
(* What each callable of the model does when called with arg; fresh is the *)
(* identity of the object it may construct.                                *)
CallBody(name, arg, fresh) ==
    CASE name = "double" ->
           IF IsInt(arg) THEN Ret(PyInt(2 * arg.int), <<>>)
           ELSE Raise(Exc("TypeError", "unsupported operand"), <<>>)
      [] name = "inc" ->
           IF IsInt(arg) THEN Ret(PyInt(arg.int + 1), <<>>)
           ELSE Raise(Exc("TypeError", "unsupported operand"), <<>>)
      [] name = "log" -> Ret(None, <<>>)
      [] name = "raise" -> Raise(Exc("ValueError", "bad callback"), <<>>)
      [] name = "panic" -> panic(S("invariant violated"), None)
      [] name = "ok_inc" ->
           IF IsInt(arg) THEN Ret(Ok(PyInt(arg.int + 1), fresh), <<>>)
           ELSE Raise(Exc("TypeError", "unsupported operand"), <<>>)
      [] name = "to_err" -> Ret(Err(arg, fresh), <<>>)
      [] name = "message_of" ->
           IF IsTagged(arg) THEN Ret(arg.message, <<>>)
           ELSE Raise(Exc("AttributeError", "message"), <<>>)
      [] name = "wrap" ->
           Ret(TaggedError("MyError", S("operation failed"), arg), <<>>)
      [] OTHER -> Raise(Exc("TypeError", "not callable"), <<>>)

(* fn(arg): the outcome of the call, with the invocation recorded *)
Call(fn, arg, fresh) ==
    LET o == CallBody(fn.fn, arg, fresh)
    IN  [o EXCEPT !.calls =
            <<[fn |-> fn.fn, arg |-> arg, raised |-> (o.kind = "raise"),
               val |-> o.val]>>]

(* the outcome o of a callback turned into the outcome of wrapping its     *)
(* value in Ok / Err                                                       *)
WrapOk(o, fresh) == IF o.kind = "ret" THEN [o EXCEPT !.val = Ok(o.val, fresh)] ELSE o
WrapErr(o, fresh) == IF o.kind = "ret" THEN [o EXCEPT !.val = Err(o.val, fresh)] ELSE o
(* the outcome of `fn(value); return self` *)
ThenSelf(o, self) == IF o.kind = "ret" THEN [o EXCEPT !.val = self] ELSE o

(* ---- Ok methods ---- *)
Ok_mapReturnsSelf(self, fn, fresh) == Ret(self, <<>>)

Ok_map(self, fn, fresh) ==
    try_or_panic(WrapOk(Call(fn, self.value, fresh), fresh), "Ok.map failed")

Ok_map_err(self, fn, fresh) == Ret(self, <<>>)

Ok_tap(self, fn, fresh) == ThenSelf(Call(fn, self.value, fresh), self)

Ok_tap_async(self, fn, fresh) == ThenSelf(Call(fn, self.value, fresh), self)

Ok_and_thenWraps(self, fn, fresh) ==
    try_or_panic(WrapOk(Call(fn, self.value, fresh), fresh), "Ok.and_then failed")

Ok_and_then(self, fn, fresh) ==
    try_or_panic(Call(fn, self.value, fresh), "Ok.and_then failed")

Ok_and_then_async(self, fn, fresh) ==
    try_or_panic_async(Call(fn, self.value, fresh), "Ok.and_then_async failed")

Ok_unwrap(self, message) == Ret(self.value, <<>>)

(* cases[key](value): a missing key is a KeyError *)
call_handler(cases, key, value, fresh) ==
    IF key \in DOMAIN cases THEN Call(cases[key], value, fresh)
    ELSE Raise(Exc("KeyError", key), <<>>)

Ok_matchCallsErr(self, cases, fresh) ==
    try_or_panic(call_handler(cases, "err", self.value, fresh), "Ok.match failed")

Ok_match(self, cases, fresh) ==
    try_or_panic(call_handler(cases, "ok", self.value, fresh), "Ok.match failed")

(* `message or default`: None and the empty str are falsy *)
message_or(message, default) ==
    IF message = None \/ message = S("") THEN default ELSE message

(* ---- Err methods ---- *)
Err_mapCallsFn(self, fn, fresh) ==
    try_or_panic(WrapOk(Call(fn, self.value, fresh), fresh), "Err.map failed")

Err_map(self, fn, fresh) == Ret(self, <<>>)

Err_map_errInPlace(self, fn, fresh) ==
    LET o == Call(fn, self.value, fresh)
    IN  try_or_panic(IF o.kind = "ret"
                     THEN [o EXCEPT !.val = [self EXCEPT !.value = o.val]]
                     ELSE o,
                     "Err.map_err failed")

Err_map_err(self, fn, fresh) ==
    try_or_panic(WrapErr(Call(fn, self.value, fresh), fresh), "Err.map_err failed")

Err_tap(self, fn, fresh) == Ret(self, <<>>)

Err_tap_async(self, fn, fresh) == Ret(self, <<>>)

Err_and_then(self, fn, fresh) ==
    try_or_panic(Ret(self, <<>>), "Err.and_then failed")

Err_and_then_async(self, fn, fresh) ==
    try_or_panic(Ret(self, <<>>), "Err.and_then_async failed")

(* the chunks of a str between quotes *)
repr_quoted(text) == <<"'">> \o text.str \o <<"'">>

(* repr(value): an exception shows as Class(message), a str in quotes *)
repr(v) ==
    IF IsTagged(v) THEN [str |-> <<v.tag, "(">> \o repr_quoted(v.message) \o <<")">>]
    ELSE IF IsPlainExc(v) THEN [str |-> <<v.exc, "(">> \o repr_quoted(v.msg) \o <<")">>]
    ELSE IF "str" \in DOMAIN v THEN [str |-> repr_quoted(v)]
    ELSE str(v)

Err_unwrap(self, message) ==
    panic(message_or(message,
                     Concat(S("unwrap called on Err: "), repr(self.value))),
          None)

Err_unwrap_err(self, message) == Ret(self.value, <<>>)

Ok_unwrap_err(self, message) ==
    panic(message_or(message,
                     Concat(S("unwrap_err called on Ok: "), repr(self.value))),
          None)

Err_match(self, cases, fresh) ==
    try_or_panic(call_handler(cases, "err", self.value, fresh), "Err.match failed")

(* ---- dynamic dispatch on the variant ---- *)
Method(op, self, fn, fresh) ==
    IF is_ok(self)
    THEN CASE op = "map" -> Ok_map(self, fn, fresh)
           [] op = "map_err" -> Ok_map_err(self, fn, fresh)
           [] op = "tap" -> Ok_tap(self, fn, fresh)
           [] op = "tap_async" -> Ok_tap_async(self, fn, fresh)
           [] op = "and_then" -> Ok_and_then(self, fn, fresh)
           [] op = "and_then_async" -> Ok_and_then_async(self, fn, fresh)
           [] op = "match" -> Ok_match(self, fn, fresh)
    ELSE CASE op = "map" -> Err_map(self, fn, fresh)
           [] op = "map_err" -> Err_map_err(self, fn, fresh)
           [] op = "tap" -> Err_tap(self, fn, fresh)
           [] op = "tap_async" -> Err_tap_async(self, fn, fresh)
           [] op = "and_then" -> Err_and_then(self, fn, fresh)
           [] op = "and_then_async" -> Err_and_then_async(self, fn, fresh)
           [] op = "match" -> Err_match(self, fn, fresh)

Result_unwrap(self, message) ==
    IF is_ok(self) THEN Ok_unwrap(self, message) ELSE Err_unwrap(self, message)

Result_unwrap_err(self, message) ==
    IF is_ok(self) THEN Ok_unwrap_err(self, message)
    ELSE Err_unwrap_err(self, message)

Ok_unwrap_or(self, fallback) == Ret(self.value, <<>>)

Err_unwrap_or(self, fallback) == Ret(fallback, <<>>)

Result_unwrap_or(self, fallback) ==
    IF is_ok(self) THEN Ok_unwrap_or(self, fallback)
    ELSE Err_unwrap_or(self, fallback)

(* ---- equality and hash ---- *)
(* hash(value): a function of the value, equal values hash alike *)
py_hash(v) == [hash |-> v]

Ok___hash__ById(self) == py_hash(<<"ok", PyInt(self.oid)>>)

(* Ok.__hash__ / Err.__hash__: hash((status, value)) *)
Ok___hash__(self) == py_hash(<<"ok", py_hash(self.value)>>)
Err___hash__(self) == py_hash(<<"err", py_hash(self.value)>>)

Result___hash__(self) ==
    IF is_ok(self) THEN Ok___hash__(self) ELSE Err___hash__(self)

(* Ok.__eq__ / Err.__eq__: isinstance(other, <own class>), then the held   *)
(* values are compared                                                     *)
Ok___eq__(self, other) ==
    IF ~(IsResult(other) /\ is_ok(other)) THEN FALSE
    ELSE self.value = other.value

Err___eq__(self, other) ==
    IF ~(IsResult(other) /\ is_err(other)) THEN FALSE
    ELSE self.value = other.value

Result___eq__(self, other) ==
    IF is_ok(self) THEN Ok___eq__(self, other) ELSE Err___eq__(self, other)

(* ---- serialize / hydrate ---- *)
PyDict(f) == [dict |-> f]
IsDict(v) == "dict" \in DOMAIN v

Ok_serialize(self) == PyDict([status |-> S("ok"), value |-> self.value])

Err_serializeAlwaysStr(self) ==
    PyDict([status |-> S("err"), value |-> str(self.value)])

(* an Exception held by an Err is serialized as its str() *)
Err_serialize(self) ==
    PyDict([status |-> S("err"),
            value |-> IF is_error(self.value) THEN str(self.value)
                      ELSE self.value])

Result_serialize(self) ==
    IF is_ok(self) THEN Ok_serialize(self) ELSE Err_serialize(self)

is_serialized_resultAnyStatus(d) ==
    IsDict(d) /\ "status" \in DOMAIN d.dict /\ "value" \in DOMAIN d.dict

(* is_serialized_result / is_result: a dict with status and value whose    *)
(* status is "ok" or "err"                                                 *)
is_serialized_result(d) ==
    IF ~IsDict(d) THEN FALSE
    ELSE IF "status" \notin DOMAIN d.dict \/ "value" \notin DOMAIN d.dict THEN FALSE
    ELSE IF d.dict["status"] \notin {S("ok"), S("err")} THEN FALSE
    ELSE TRUE

(* Result.hydrate *)
hydrate(data, fresh) ==
    IF ~is_serialized_result(data) THEN Ret(None, <<>>)
    ELSE IF data.dict["status"] = S("ok")
         THEN Ret(Ok(data.dict["value"], fresh), <<>>)
         ELSE Ret(Err(data.dict["value"], fresh), <<>>)

hydrate_asOkStaysOk(data, ok, err, fresh) ==
    IF ~is_serialized_result(data) THEN Ret(None, <<>>)
    ELSE LET isok == data.dict["status"] = S("ok")
             o == Call(IF isok THEN ok ELSE err, data.dict["value"], fresh)
         IN  IF isok THEN Ret(Ok(o.val, fresh), o.calls)
             ELSE Ret(Err(o.val, fresh), o.calls)

(* Result.hydrate_as: the decoder of the status is applied to the value;   *)
(* an Exception raised by it is returned in an Err                         *)
hydrate_as(data, ok, err, fresh) ==
    IF ~is_serialized_result(data) THEN Ret(None, <<>>)
    ELSE LET o == IF data.dict["status"] = S("ok")
                  THEN WrapOk(Call(ok, data.dict["value"], fresh), fresh)
                  ELSE WrapErr(Call(err, data.dict["value"], fresh), fresh)
         IN  IF o.kind = "raise" /\ is_error(o.val)
             THEN Ret(Err(o.val, fresh), o.calls)
             ELSE o

(* ---- okresult/error.py: dispatch on the tag ---- *)
(* dict.get(key): None when the key is absent *)
handlers_get(handlers, tag) ==
    IF tag \in DOMAIN handlers THEN handlers[tag] ELSE None

TaggedError_matchReturnsNone(error, handlers, fresh) ==
    LET handler == handlers_get(handlers, error.tag)
    IN  IF handler = None THEN Ret(None, <<>>)
        ELSE Call(handler, error, fresh)

(* TaggedError.match *)
TaggedError_match(error, handlers, fresh) ==
    LET handler == handlers_get(handlers, error.tag)
    IN  IF handler = None
        THEN Raise([exc |-> "ValueError",
                    msg |-> Concat(S("No handler for error tag: "), S(error.tag))],
                   <<>>)
        ELSE Call(handler, error, fresh)

match_partialCallsBoth(error, handlers, otherwise, fresh) ==
    LET handler == handlers_get(handlers, error.tag)
        o == Call(otherwise, error, fresh)
    IN  IF handler = None THEN o
        ELSE LET h == Call(handler, error, fresh)
             IN  [h EXCEPT !.calls = o.calls \o h.calls]

(* TaggedError.match_partial *)
match_partial(error, handlers, otherwise, fresh) ==
    LET handler == handlers_get(handlers, error.tag)
    IN  IF handler = None THEN Call(otherwise, error, fresh)
        ELSE Call(handler, error, fresh)

(* ---- resultpy/error.py: dispatch on the class ---- *)
(* the direct bases of each class: TaggedError(ABC, Exception), the error  *)
(* classes of the tests, a subclass of one of them and a class deriving    *)
(* from two of them                                                        *)
Bases ==
    [object |-> <<>>,
     BaseException |-> <<"object">>,
     Exception |-> <<"BaseException">>,
     ABC |-> <<"object">>,
     TaggedError |-> <<"ABC", "Exception">>,
     NotFoundError |-> <<"TaggedError">>,
     ValidationError |-> <<"TaggedError">>,
     NetworkError |-> <<"TaggedError">>,
     UserNotFoundError |-> <<"NotFoundError">>,
     ConflictError |-> <<"ValidationError", "NotFoundError">>]

(* the merge step of the method resolution order: the first head that is   *)
(* in no tail is taken and removed from every list                         *)
RECURSIVE mro_merge(_)
mro_merge(lists) ==
    LET ne == SelectSeq(lists, LAMBDA l : l # <<>>)
    IN  IF ne = <<>> THEN <<>>
        ELSE LET InTail(c) ==
                     \E i \in 1..Len(ne) : \E j \in 2..Len(ne[i]) : ne[i][j] = c
                 good == {i \in 1..Len(ne) : ~InTail(ne[i][1])}
                 k == CHOOSE i \in good : \A j \in good : i <= j
                 c == ne[k][1]
             IN  <<c>> \o mro_merge([i \in 1..Len(ne) |->
                                        IF ne[i][1] = c THEN Tail(ne[i])
                                        ELSE ne[i]])

(* cls.__mro__ *)
RECURSIVE mro(_)
mro(cls) ==
    <<cls>> \o mro_merge([i \in 1..Len(Bases[cls]) |-> mro(Bases[cls][i])]
                         \o <<Bases[cls]>>)

(* issubclass(sub, cls): cls is sub or is reached through bases *)
RECURSIVE issubclass(_, _)
issubclass(sub, cls) ==
    \/ sub = cls
    \/ \E i \in 1..Len(Bases[sub]) : issubclass(Bases[sub][i], cls)

(* type(error) and isinstance(error, cls) *)
type(error) == error.cls
isinstance(error, cls) == issubclass(type(error), cls)

(* an instance of a TaggedError subclass: the tag is the class name *)
TypedError(cls, message, cause) ==
    [cls |-> cls] @@ TaggedError(cls, message, cause)

(* the loop `for cls in error_type.__mro__` from position i on *)
RECURSIVE match_walk(_, _, _, _, _)
match_walk(error, handlers, chain, i, fresh) ==
    IF i > Len(chain)
    THEN Raise([exc |-> "ValueError",
                msg |-> Concat(S("No handler for error type "), S(type(error)))],
               <<>>)
    ELSE LET cls == chain[i]
             handler == handlers_get(handlers, cls)
         IN  IF handler # None
             THEN IF ~isinstance(error, cls)
                  THEN Raise([exc |-> "TypeError",
                              msg |-> [str |-> <<"Expected ", cls, ", got ",
                                                 type(error)>>]],
                             <<>>)
                  ELSE Call(handler, error, fresh)
             ELSE match_walk(error, handlers, chain, i + 1, fresh)

resultpy_matchGeneralFirst(error, handlers, fresh) ==
    LET chain == mro(type(error))
    IN  match_walk(error, handlers,
                   [i \in 1..Len(chain) |-> chain[Len(chain) + 1 - i]], 1, fresh)

(* resultpy TaggedError.match *)
resultpy_match(error, handlers, fresh) ==
    match_walk(error, handlers, mro(type(error)), 1, fresh)

(* ---- module-level free functions ---- *)
(* Called with the callback only (fn is None) they return a closure that   *)
(* awaits the Result; called with both they apply the method.  Either way  *)
(* the method call runs under try_or_panic.                                *)
Lambda(name, fn) == [lambda |-> name, fn |-> fn]

map(result, fn, fresh) ==
    IF fn = None THEN Ret(Lambda("map", result), <<>>)
    ELSE try_or_panic(Method("map", result, fn, fresh), "map failed")

map_err(result, fn, fresh) ==
    IF fn = None THEN Ret(Lambda("map_err", result), <<>>)
    ELSE try_or_panic(Method("map_err", result, fn, fresh), "map_err failed")

tap(result, fn, fresh) ==
    IF fn = None THEN Ret(Lambda("tap", result), <<>>)
    ELSE try_or_panic(Method("tap", result, fn, fresh), "tap failed")

tap_async(result, fn, fresh) ==
    IF fn = None THEN Ret(Lambda("tap_async", result), <<>>)
    ELSE try_or_panic_async(Method("tap_async", result, fn, fresh),
                            "tap_async failed")

and_then(result, fn, fresh) ==
    IF fn = None THEN Ret(Lambda("and_then", result), <<>>)
    ELSE try_or_panic(Method("and_then", result, fn, fresh), "and_then failed")

and_then_async(result, fn, fresh) ==
    IF fn = None THEN Ret(Lambda("and_then_async", result), <<>>)
    ELSE try_or_panic_async(Method("and_then_async", result, fn, fresh),
                            "and_then_async failed")

unwrap(result, message) == Result_unwrap(result, message)

match(result, handlers, fresh) ==
    IF handlers = None THEN Ret(Lambda("match", result), <<>>)
    ELSE try_or_panic(Method("match", result, handlers, fresh), "match failed")

Free(op, a, b, fresh) ==
    CASE op = "map" -> map(a, b, fresh)
      [] op = "map_err" -> map_err(a, b, fresh)
      [] op = "tap" -> tap(a, b, fresh)
      [] op = "tap_async" -> tap_async(a, b, fresh)
      [] op = "and_then" -> and_then(a, b, fresh)
      [] op = "and_then_async" -> and_then_async(a, b, fresh)
      [] op = "match" -> match(a, b, fresh)

(* the closure `lambda r: try_or_panic(lambda: r.<op>(_fn), "<op> failed")` *)
(* applied to r                                                            *)
ApplyLambda(c, r, fresh) == Free(c.lambda, r, c.fn, fresh)

(* one combinator call in one of its three calling forms *)
Invoke(op, form, r, fn, fresh) ==
    CASE form = "method" -> Method(op, r, fn, fresh)
      [] form = "direct" -> Free(op, r, fn, fresh)
      [] form = "curried" -> ApplyLambda(Free(op, fn, None, fresh).val, r, fresh)

(* ---- okresult/safe.py ---- *)
EmptyDict == [k \in {} |-> 0]
IsNone(v) == "none" \in DOMAIN v
(* truthiness of an optional dict: None and {} are falsy *)
Truthy(d) == ~IsNone(d) /\ DOMAIN d # {}
dict_get(d, k, default) == IF k \in DOMAIN d THEN d[k] ELSE default

callable(thunk) == "fn" \in DOMAIN thunk

(* execute(): o is what the wrapped operation did on this attempt *)
executeAbsorbsCatchFault(thunk, o, fresh) ==
    IF callable(thunk)
    THEN IF o.kind = "ret" THEN Ret(Ok(o.val, fresh), <<>>)
         ELSE Ret(Err(UnhandledException(o.val), fresh), <<>>)
    ELSE IF o.kind = "ret" THEN Ret(Ok(o.val, fresh), <<>>)
         ELSE LET c == Call(thunk.catch, o.val, fresh)
              IN  Ret(Err(c.val, fresh), c.calls)

executeNoCatch(thunk, o, fresh) ==
    IF o.kind = "ret" THEN Ret(Ok(o.val, fresh), <<>>)
    ELSE Ret(Err(UnhandledException(o.val), fresh), <<>>)

execute(thunk, o, fresh) ==
    IF callable(thunk)
    THEN IF o.kind = "ret" THEN Ret(Ok(o.val, fresh), <<>>)
         ELSE Ret(Err(UnhandledException(o.val), fresh), <<>>)
    ELSE IF o.kind = "ret" THEN Ret(Ok(o.val, fresh), <<>>)
         ELSE WrapErr(Call(thunk.catch, o.val, fresh), fresh)

(* retry_config = (config or {}).get("retry", {})                          *)
(* times = retry_config.get("times", 0) if retry_config else 0             *)
retry_times(config) ==
    LET retry_config ==
            dict_get(IF Truthy(config) THEN config ELSE EmptyDict,
                     "retry", EmptyDict)
    IN  IF Truthy(retry_config) THEN dict_get(retry_config, "times", 0) ELSE 0

(* `for _ in range(times): if result.is_ok(): break`: another attempt is   *)
(* made while iterations remain and the latest result is not Ok            *)
loop_continuesIgnoresOk(attempt, times, result) == attempt < times

loop_continuesOneLess(attempt, times, result) ==
    attempt + 1 < times /\ ~is_ok(result)

loop_continues(attempt, times, result) == attempt < times /\ ~is_ok(result)

(* a float number of seconds, kept exact: num / den *)
Seconds(num, den) == [num |-> num, den |-> den]
Pow2(n) == 2 ^ n

get_delayDefaultsLinear(config, attempt) ==
    IF ~Truthy(config) THEN Seconds(0, 1)
    ELSE LET retry_config == dict_get(config, "retry", None)
         IN  IF ~Truthy(retry_config) THEN Seconds(0, 1)
             ELSE LET delay_ms == dict_get(retry_config, "delay_ms", 0)
                      backoff == dict_get(retry_config, "backoff", "linear")
                  IN  IF backoff = "constant" THEN Seconds(delay_ms, 1000)
                      ELSE IF backoff = "linear"
                           THEN Seconds(delay_ms * (attempt + 1), 1000)
                      ELSE Seconds(delay_ms * Pow2(attempt), 1000)

get_delayCountsFromOne(config, attempt) ==
    LET retry_config == dict_get(config, "retry", EmptyDict)
        delay_ms == dict_get(retry_config, "delay_ms", 0)
        backoff == dict_get(retry_config, "backoff", "constant")
    IN  IF backoff = "constant" THEN Seconds(delay_ms, 1000)
        ELSE IF backoff = "linear" THEN Seconds(delay_ms * (attempt + 1), 1000)
        ELSE Seconds(delay_ms * Pow2(attempt + 1), 1000)

get_delay(config, attempt) ==
    IF ~Truthy(config) THEN Seconds(0, 1)
    ELSE LET retry_config == dict_get(config, "retry", None)
         IN  IF ~Truthy(retry_config) THEN Seconds(0, 1)
             ELSE LET delay_ms == dict_get(retry_config, "delay_ms", 0)
                      backoff == dict_get(retry_config, "backoff", "constant")
                  IN  IF backoff = "constant" THEN Seconds(delay_ms, 1000)
                      ELSE IF backoff = "linear"
                           THEN Seconds(delay_ms * (attempt + 1), 1000)
                      ELSE Seconds(delay_ms * Pow2(attempt), 1000)

(* `if delay > 0: await asyncio.sleep(delay)` *)
sleepsAlways(delay) == TRUE

sleeps(delay) == delay.num > 0

(* ---- inputs the callers of the model draw from ---- *)
Values == {PyInt(n) : n \in 0..MaxVal} \cup {PyInt(ExampleVal)}

MapFns == {Fn("double"), Fn("inc"), Fn("raise"), Fn("panic")}
TapFns == {Fn("log"), Fn("raise")}
AndThenFns == {Fn("ok_inc"), Fn("to_err"), Fn("raise")}
CatchFns == {Fn("wrap"), Fn("raise")}
Forms == {"method", "direct", "curried"}

(* the fallback passed to unwrap_or *)
Fallback == S("fallback")

(* what a Result is compared with: Results of either variant (other        *)
(* instances, oid -1) and objects that are not Results                     *)
Others ==
    {Ok(v, -1) : v \in {PyInt(0), PyInt(1), None}}
    \cup {Err(v, -1) : v \in {PyInt(0), PyInt(1), None}}
    \cup {PyInt(0), None}

(* held values that are not ints: such Results are unwrapped and           *)
(* serialized, the int callbacks of the model are not applied to them      *)
OtherValues == {None, S("Error"), Exc("ValueError", "boom")}

(* arguments of hydrate / hydrate_as that are not a serialized Result *)
OtherData ==
    {None, PyInt(1), S("ok"), Ok(PyInt(1), 0), PyDict(EmptyDict),
     PyDict("status" :> S("ok")), PyDict("value" :> PyInt(1)),
     PyDict([status |-> S("pending"), value |-> PyInt(1)]),
     PyDict([status |-> PyInt(1), value |-> PyInt(1)]),
     PyDict([status |-> None, value |-> PyInt(1)])}

(* well-shaped arguments of hydrate / hydrate_as *)
WireData ==
    {PyDict([status |-> S(st), value |-> v]) :
        st \in {"ok", "err"}, v \in Values \cup {None, S("Error")}}
    \cup {PyDict([status |-> S("err"), value |-> PyInt(0), extra |-> None])}

(* the cause argument of a constructor call: left out, or passed *)
Omitted == [omitted |-> TRUE]
CauseArgs ==
    {Omitted, None, S("None"), S("invalid input"), PyInt(0),
     Exc("IOError", "disk")}

(* the parameter default: cause: Optional[object] = None *)
cause_param(arg) == IF arg = Omitted THEN None ELSE arg

(* concrete subclasses of TaggedError, by their tag *)
Tags == {"NotFoundError", "ValidationError", "Panic"}

(* handler dicts: none, some or all of the tags *)
TagHandlers ==
    {EmptyDict,
     "NotFoundError" :> Fn("message_of"),
     "ValidationError" :> Fn("log"),
     ("NotFoundError" :> Fn("message_of")) @@ ("ValidationError" :> Fn("raise")),
     ("NotFoundError" :> Fn("log")) @@ ("ValidationError" :> Fn("message_of"))
        @@ ("Panic" :> Fn("message_of"))}

Fallbacks == {Fn("wrap"), Fn("raise")}

(* the classes errors are instances of *)
ErrorClasses ==
    {"NotFoundError", "ValidationError", "NetworkError", "UserNotFoundError",
     "ConflictError"}

(* handler mappings keyed by class, with a different handler per class *)
ClassHandlers ==
    {EmptyDict,
     "TaggedError" :> Fn("log"),
     "object" :> Fn("log"),
     "NetworkError" :> Fn("raise"),
     ("NotFoundError" :> Fn("message_of")) @@ ("TaggedError" :> Fn("log")),
     ("UserNotFoundError" :> Fn("wrap")) @@ ("NotFoundError" :> Fn("message_of"))
        @@ ("Exception" :> Fn("log")),
     ("NotFoundError" :> Fn("message_of")) @@ ("ValidationError" :> Fn("wrap")),
     ("ValidationError" :> Fn("wrap")) @@ ("TaggedError" :> Fn("log"))
        @@ ("ConflictError" :> Fn("message_of"))}

OkDecoders == {Fn("inc"), Fn("raise")}
ErrDecoders == {Fn("double"), Fn("panic")}
Messages == {None, S("custom"), S("")}

(* {ok, err} handler pairs, and two that lack one of the handlers *)
Matchers ==
    {[ok |-> a, err |-> b] : a \in {Fn("double"), Fn("raise")},
                             b \in {Fn("inc"), Fn("raise")}}
    \cup {"ok" :> Fn("double"), "err" :> Fn("inc")}

(* a Panic raised while the wrapped operation runs, e.g. by a combinator   *)
(* whose callback failed inside it                                         *)
PanicFault == Ok_map(Ok(PyInt(0), 0), Fn("raise"), 0).val

Faults == {Exc("IOError", "disk"), Exc("TimeoutError", "slow"), PanicFault}

(* what one invocation of the wrapped operation can do *)
OpOutcomes ==
    {Ret(PyInt(n), <<>>) : n \in 0..MaxVal} \cup {Raise(e, <<>>) : e \in Faults}

Thunks ==
    {Fn("operation")} \cup
    {[try_ |-> Fn("operation"), catch |-> c] : c \in CatchFns}

Opt(key, vals) == {EmptyDict} \cup {key :> v : v \in vals}

RetryConfigs ==
    {t @@ d @@ b : t \in Opt("times", 0..MaxTimes),
                   d \in Opt("delay_ms", {0, 1, MaxDelayMs}),
                   b \in Opt("backoff", {"constant", "linear",
                                         "exponential", "fibonacci"})}

SyncRetryConfigs == Opt("times", 0..MaxTimes) \cup {"delay_ms" :> 1}

AsyncConfigs ==
    {None, EmptyDict, "timeout" :> 1} \cup {"retry" :> rc : rc \in RetryConfigs}

SyncConfigs ==
    {None, EmptyDict, "timeout" :> 1} \cup {"retry" :> rc : rc \in SyncRetryConfigs}

(* ---- state ---- *)
VARIABLES
    mode,      \* which call is being made: "none", "chain", "wire", "error",
               \* "typed", "safe", "safe_async"
    pc,        \* the position of the caller / of the running call
    src,       \* chain: the Result the chain started from
    cur,       \* chain: the Result the next combinator is applied to
    hist,      \* chain: the calls made so far, [op, form, fn, on]
    out,       \* the outcome of the latest call
    calls,     \* every callback invocation so far, in order
    nextId,    \* identity of the next object constructed
    thunk,     \* safe: the operation or the {try_, catch} pair
    config,    \* safe: the config argument
    times,     \* safe: the local `times`
    attempt,   \* safe: number of loop iterations started
    result,    \* safe: the local `result`
    opLog,     \* safe: what the operation did on each invocation, in order
    trace,     \* safe_async: the suspension events, in order
    delays     \* safe_async: the delay computed before each retry, in order

vars == <<mode, pc, src, cur, hist, out, calls, nextId,
          thunk, config, times, attempt, result, opLog, trace, delays>>

chainVars == <<src, cur, hist>>
safeVars == <<thunk, config, times, attempt, result, opLog, trace, delays>>

Init ==
    /\ mode = "none"
    /\ pc = "idle"
    /\ src = None
    /\ cur = None
    /\ hist = <<>>
    /\ out = NoOutcome
    /\ calls = <<>>
    /\ nextId = 0
    /\ thunk = None
    /\ config = None
    /\ times = 0
    /\ attempt = 0
    /\ result = None
    /\ opLog = <<>>
    /\ trace = <<>>
    /\ delays = <<>>

(* ---- combinator chains ---- *)
(* Result.ok(value) / Result.err(value) *)
NewResult(status, v) ==
    /\ pc = "idle"
    /\ mode' = "chain"
    /\ pc' = "chain"
    /\ src' = (IF status = "ok" THEN Ok(v, nextId) ELSE Err(v, nextId))
    /\ cur' = src'
    /\ nextId' = nextId + 1
    /\ UNCHANGED <<hist, out, calls>>
    /\ UNCHANGED safeVars

(* one combinator applied to cur; a raise ends the chain *)
Combinator(op, form, fn) ==
    /\ pc = "chain"
    /\ Len(hist) < MaxChain
    /\ IsInt(cur.value)
    /\ LET o == Invoke(op, form, cur, fn, nextId)
       IN  /\ out' = o
           /\ calls' = calls \o o.calls
           /\ hist' = Append(hist, [op |-> op, form |-> form, fn |-> fn, on |-> cur])
           /\ cur' = (IF o.kind = "ret" THEN o.val ELSE cur)
           /\ pc' = (IF o.kind = "ret" THEN "chain" ELSE "done")
    /\ nextId' = nextId + 1
    /\ UNCHANGED <<mode, src>>
    /\ UNCHANGED safeVars

Map == \E form \in Forms, fn \in MapFns : Combinator("map", form, fn)
MapErr == \E form \in Forms, fn \in MapFns : Combinator("map_err", form, fn)
Tap == \E form \in Forms, fn \in TapFns : Combinator("tap", form, fn)
TapAsync == \E form \in Forms, fn \in TapFns : Combinator("tap_async", form, fn)
AndThen == \E form \in Forms, fn \in AndThenFns : Combinator("and_then", form, fn)
AndThenAsync ==
    \E form \in Forms, fn \in AndThenFns : Combinator("and_then_async", form, fn)

(* the terminal unwrap, as method or free function *)
Unwrap ==
    /\ pc = "chain"
    /\ \E form \in {"method", "direct"}, message \in Messages :
          LET o == IF form = "method" THEN Result_unwrap(cur, message)
                   ELSE unwrap(cur, message)
          IN  /\ out' = o
              /\ hist' = Append(hist, [op |-> "unwrap", form |-> form,
                                       fn |-> message, on |-> cur])
    /\ pc' = "done"
    /\ UNCHANGED <<mode, src, cur, calls, nextId>>
    /\ UNCHANGED safeVars

(* the terminal unwrap_err (a method only) *)
UnwrapErr ==
    /\ pc = "chain"
    /\ Len(hist) <= MaxPrefix
    /\ \E message \in Messages :
          /\ out' = Result_unwrap_err(cur, message)
          /\ hist' = Append(hist, [op |-> "unwrap_err", form |-> "method",
                                   fn |-> message, on |-> cur])
    /\ pc' = "done"
    /\ UNCHANGED <<mode, src, cur, calls, nextId>>
    /\ UNCHANGED safeVars

(* the terminal match, in its three calling forms *)
Match ==
    /\ pc = "chain"
    /\ Len(hist) <= MaxPrefix
    /\ IsInt(cur.value)
    /\ \E form \in Forms, cases \in Matchers :
          LET o == Invoke("match", form, cur, cases, nextId)
          IN  /\ out' = o
              /\ calls' = calls \o o.calls
              /\ hist' = Append(hist, [op |-> "match", form |-> form,
                                       fn |-> cases, on |-> cur])
    /\ pc' = "done"
    /\ nextId' = nextId + 1
    /\ UNCHANGED <<mode, src, cur>>
    /\ UNCHANGED safeVars

(* the terminal unwrap_or *)
UnwrapOr ==
    /\ pc = "chain"
    /\ Len(hist) <= MaxPrefix
    /\ out' = Result_unwrap_or(cur, Fallback)
    /\ hist' = Append(hist, [op |-> "unwrap_or", form |-> "method",
                             fn |-> Fallback, on |-> cur])
    /\ pc' = "done"
    /\ UNCHANGED <<mode, src, cur, calls, nextId>>
    /\ UNCHANGED safeVars

(* cur == other and the two hashes, other being the source, another Result *)
(* or another object                                                       *)
Compare ==
    /\ pc = "chain"
    /\ Len(hist) <= MaxPrefix
    /\ \E other \in {src} \cup Others :
          /\ out' = Ret([eq |-> Result___eq__(cur, other),
                         hash |-> Result___hash__(cur),
                         other_hash |-> IF IsResult(other)
                                        THEN Result___hash__(other)
                                        ELSE py_hash(other)],
                        <<>>)
          /\ hist' = Append(hist, [op |-> "__eq__", form |-> "method",
                                   fn |-> other, on |-> cur])
    /\ pc' = "done"
    /\ UNCHANGED <<mode, src, cur, calls, nextId>>
    /\ UNCHANGED safeVars

(* the terminal serialize *)
Serialize ==
    /\ pc = "chain"
    /\ Len(hist) <= MaxPrefix
    /\ out' = Ret(Result_serialize(cur), <<>>)
    /\ hist' = Append(hist, [op |-> "serialize", form |-> "method",
                             fn |-> None, on |-> cur])
    /\ pc' = "serialized"
    /\ UNCHANGED <<mode, src, cur, calls, nextId>>
    /\ UNCHANGED safeVars

(* what hydrate / hydrate_as is called with: the dict just serialized, or  *)
(* any object                                                              *)
HydrateInputs ==
    IF pc = "serialized" THEN {out.val} ELSE WireData \cup OtherData

(* Result.hydrate(data) *)
Hydrate ==
    /\ pc \in {"idle", "serialized"}
    /\ \E data \in HydrateInputs :
          /\ out' = hydrate(data, nextId)
          /\ hist' = Append(hist, [op |-> "hydrate", form |-> "static",
                                   fn |-> None, on |-> data])
    /\ mode' = (IF pc = "idle" THEN "wire" ELSE mode)
    /\ pc' = "done"
    /\ nextId' = nextId + 1
    /\ UNCHANGED <<src, cur, calls>>
    /\ UNCHANGED safeVars

(* Result.hydrate_as(data, ok=..., err=...) *)
HydrateAs ==
    /\ pc \in {"idle", "serialized"}
    /\ \E data \in HydrateInputs, ok \in OkDecoders, err \in ErrDecoders :
          LET o == hydrate_as(data, ok, err, nextId)
          IN  /\ out' = o
              /\ calls' = calls \o o.calls
              /\ hist' = Append(hist, [op |-> "hydrate_as", form |-> "static",
                                       fn |-> [ok |-> ok, err |-> err],
                                       on |-> data])
    /\ mode' = (IF pc = "idle" THEN "wire" ELSE mode)
    /\ pc' = "done"
    /\ nextId' = nextId + 1
    /\ UNCHANGED <<src, cur>>
    /\ UNCHANGED safeVars

(* ---- tagged errors ---- *)
(* SomeError(message) / SomeError(message, cause) *)
NewError(tag, arg) ==
    /\ pc = "idle"
    /\ mode' = "error"
    /\ pc' = "error"
    /\ src' = [tag |-> tag, cause |-> arg]
    /\ cur' = TaggedError(tag, S("something failed"), cause_param(arg))
    /\ UNCHANGED <<hist, out, calls, nextId>>
    /\ UNCHANGED safeVars

(* TaggedError.match(error, handlers) *)
ErrorMatch ==
    /\ pc = "error"
    /\ \E handlers \in TagHandlers :
          LET o == TaggedError_match(cur, handlers, nextId)
          IN  /\ out' = o
              /\ calls' = calls \o o.calls
              /\ hist' = Append(hist, [op |-> "TaggedError.match",
                                       form |-> "static", fn |-> handlers,
                                       otherwise |-> None, on |-> cur])
    /\ pc' = "done"
    /\ nextId' = nextId + 1
    /\ UNCHANGED <<mode, src, cur>>
    /\ UNCHANGED safeVars

(* TaggedError.match_partial(error, handlers, otherwise) *)
ErrorMatchPartial ==
    /\ pc = "error"
    /\ \E handlers \in TagHandlers, otherwise \in Fallbacks :
          LET o == match_partial(cur, handlers, otherwise, nextId)
          IN  /\ out' = o
              /\ calls' = calls \o o.calls
              /\ hist' = Append(hist, [op |-> "TaggedError.match_partial",
                                       form |-> "static", fn |-> handlers,
                                       otherwise |-> otherwise, on |-> cur])
    /\ pc' = "done"
    /\ nextId' = nextId + 1
    /\ UNCHANGED <<mode, src, cur>>
    /\ UNCHANGED safeVars

(* ---- tagged errors, dispatched on their class (resultpy) ---- *)
NewTypedError(cls) ==
    /\ pc = "idle"
    /\ mode' = "typed"
    /\ pc' = "typed"
    /\ src' = [tag |-> cls, cause |-> Omitted]
    /\ cur' = TypedError(cls, S("something failed"), None)
    /\ UNCHANGED <<hist, out, calls, nextId>>
    /\ UNCHANGED safeVars

(* resultpy TaggedError.match(error, handlers) *)
TypeMatch ==
    /\ pc = "typed"
    /\ \E handlers \in ClassHandlers :
          LET o == resultpy_match(cur, handlers, nextId)
          IN  /\ out' = o
              /\ calls' = calls \o o.calls
              /\ hist' = Append(hist, [op |-> "resultpy.TaggedError.match",
                                       form |-> "static", fn |-> handlers,
                                       on |-> cur])
    /\ pc' = "done"
    /\ nextId' = nextId + 1
    /\ UNCHANGED <<mode, src, cur>>
    /\ UNCHANGED safeVars

(* ---- safe ---- *)
SafeCall ==
    /\ pc = "idle"
    /\ \E th \in Thunks, cfg \in SyncConfigs :
          /\ thunk' = th
          /\ config' = cfg
          /\ times' = retry_times(cfg)
    /\ mode' = "safe"
    /\ pc' = "first"
    /\ attempt' = 0
    /\ UNCHANGED <<result, opLog, trace, delays, out, calls, nextId>>
    /\ UNCHANGED chainVars

RunExecuteKeepsFirstErr(o) ==
    LET x == execute(thunk, o, nextId)
    IN  /\ opLog' = Append(opLog, o)
        /\ calls' = calls \o x.calls
        /\ nextId' = nextId + 1
        /\ IF x.kind = "ret"
           THEN /\ result' = (IF opLog # <<>> /\ is_err(x.val) THEN result
                              ELSE x.val)
                /\ pc' = "loop"
                /\ out' = out
           ELSE /\ result' = result
                /\ pc' = "done"
                /\ out' = x

(* result = execute(), with o what the operation does this time; a raise   *)
(* out of execute() leaves the call                                        *)
RunExecute(o) ==
    LET x == execute(thunk, o, nextId)
    IN  /\ opLog' = Append(opLog, o)
        /\ calls' = calls \o x.calls
        /\ nextId' = nextId + 1
        /\ IF x.kind = "ret"
           THEN /\ result' = x.val
                /\ pc' = "loop"
                /\ out' = out
           ELSE /\ result' = result
                /\ pc' = "done"
                /\ out' = x

SafeFirst ==
    /\ mode = "safe"
    /\ pc = "first"
    /\ \E o \in OpOutcomes : RunExecute(o)
    /\ UNCHANGED <<mode, thunk, config, times, attempt, trace, delays>>
    /\ UNCHANGED chainVars

SafeRetry ==
    /\ mode = "safe"
    /\ pc = "loop"
    /\ loop_continues(attempt, times, result)
    /\ attempt' = attempt + 1
    /\ \E o \in OpOutcomes : RunExecute(o)
    /\ UNCHANGED <<mode, thunk, config, times, trace, delays>>
    /\ UNCHANGED chainVars

SafeReturn ==
    /\ mode = "safe"
    /\ pc = "loop"
    /\ ~loop_continues(attempt, times, result)
    /\ out' = Ret(result, <<>>)
    /\ pc' = "done"
    /\ UNCHANGED <<mode, calls, nextId>>
    /\ UNCHANGED safeVars
    /\ UNCHANGED chainVars

(* ---- safe_async ---- *)
AsyncCall ==
    /\ pc = "idle"
    /\ \E th \in Thunks, cfg \in AsyncConfigs :
          /\ thunk' = th
          /\ config' = cfg
          /\ times' = retry_times(cfg)
    /\ mode' = "safe_async"
    /\ pc' = "start"
    /\ attempt' = 0
    /\ UNCHANGED <<result, opLog, trace, delays, out, calls, nextId>>
    /\ UNCHANGED chainVars

(* `await thunk()`: the operation is started and the call suspends *)
AsyncStart ==
    /\ mode = "safe_async"
    /\ pc = "start"
    /\ pc' = "await"
    /\ trace' = Append(trace, [ev |-> "start", delay |-> Seconds(0, 1)])
    /\ UNCHANGED <<mode, out, calls, nextId>>
    /\ UNCHANGED <<thunk, config, times, attempt, result, opLog, delays>>
    /\ UNCHANGED chainVars

(* the awaited operation completes and execute() returns *)
AsyncComplete ==
    /\ mode = "safe_async"
    /\ pc = "await"
    /\ \E o \in OpOutcomes : RunExecute(o)
    /\ trace' = Append(trace, [ev |-> "end", delay |-> Seconds(0, 1)])
    /\ UNCHANGED <<mode, thunk, config, times, attempt, delays>>
    /\ UNCHANGED chainVars

AsyncRetryNoAwait ==
    /\ mode = "safe_async"
    /\ pc = "loop"
    /\ loop_continues(attempt, times, result)
    /\ LET delay == get_delay(config, attempt)
       IN  /\ delays' = Append(delays, delay)
           /\ pc' = "start"
           /\ trace' = IF sleeps(delay)
                       THEN Append(trace, [ev |-> "sleep", delay |-> delay])
                       ELSE trace
    /\ attempt' = attempt + 1
    /\ UNCHANGED <<mode, out, calls, nextId, thunk, config, times, result, opLog>>
    /\ UNCHANGED chainVars

(* one iteration of the retry loop up to its next suspension *)
AsyncRetry ==
    /\ mode = "safe_async"
    /\ pc = "loop"
    /\ loop_continues(attempt, times, result)
    /\ LET delay == get_delay(config, attempt)
       IN  /\ delays' = Append(delays, delay)
           /\ IF sleeps(delay)
              THEN /\ pc' = "sleep"
                   /\ trace' = Append(trace, [ev |-> "sleep", delay |-> delay])
              ELSE /\ pc' = "start"
                   /\ trace' = trace
    /\ attempt' = attempt + 1
    /\ UNCHANGED <<mode, out, calls, nextId, thunk, config, times, result, opLog>>
    /\ UNCHANGED chainVars

(* asyncio.sleep(delay) elapses *)
AsyncWake ==
    /\ mode = "safe_async"
    /\ pc = "sleep"
    /\ pc' = "start"
    /\ trace' = Append(trace, [ev |-> "wake", delay |-> Seconds(0, 1)])
    /\ UNCHANGED <<mode, out, calls, nextId>>
    /\ UNCHANGED <<thunk, config, times, attempt, result, opLog, delays>>
    /\ UNCHANGED chainVars

AsyncReturn ==
    /\ mode = "safe_async"
    /\ pc = "loop"
    /\ ~loop_continues(attempt, times, result)
    /\ out' = Ret(result, <<>>)
    /\ pc' = "done"
    /\ UNCHANGED <<mode, calls, nextId>>
    /\ UNCHANGED safeVars
    /\ UNCHANGED chainVars

Next ==
    \/ \E status \in {"ok", "err"}, v \in Values \cup OtherValues :
          NewResult(status, v)
    \/ Map
    \/ MapErr
    \/ Tap
    \/ TapAsync
    \/ AndThen
    \/ AndThenAsync
    \/ Unwrap
    \/ UnwrapErr
    \/ Match
    \/ UnwrapOr
    \/ Compare
    \/ Serialize
    \/ Hydrate
    \/ HydrateAs
    \/ \E tag \in Tags, arg \in CauseArgs : NewError(tag, arg)
    \/ ErrorMatch
    \/ ErrorMatchPartial
    \/ \E cls \in ErrorClasses : NewTypedError(cls)
    \/ TypeMatch
    \/ SafeCall
    \/ SafeFirst
    \/ SafeRetry
    \/ SafeReturn
    \/ AsyncCall
    \/ AsyncStart
    \/ AsyncComplete
    \/ AsyncRetry
    \/ AsyncWake
    \/ AsyncReturn

Spec == Init /\ [][Next]_vars

TypeOK ==
    pc \in {"idle", "chain", "serialized", "error", "typed", "first", "start", "await",
            "loop", "sleep", "done"}

(* ==== helpers of the properties ==== *)
Succeeded(o) == o.kind = "ret"
Last(seq) == seq[Len(seq)]
Min(a, b) == IF a < b THEN a ELSE b

(* the retry count the config asks for: 0 when config, retry or times is   *)
(* omitted                                                                 *)
ConfiguredTimes(cfg) ==
    IF IsNone(cfg) THEN 0
    ELSE IF "retry" \notin DOMAIN cfg THEN 0
    ELSE IF "times" \notin DOMAIN cfg.retry THEN 0
    ELSE cfg.retry.times

(* 1-based index of the first invocation that succeeded; Len + 1 stands    *)
(* for "none did"                                                          *)
FirstSuccess(log) ==
    IF \E i \in 1..Len(log) : Succeeded(log[i])
    THEN CHOOSE i \in 1..Len(log) :
            Succeeded(log[i]) /\ \A j \in 1..(i - 1) : ~Succeeded(log[j])
    ELSE Len(log) + 1

NoAttemptAfterSuccess(log) == \A i \in 1..(Len(log) - 1) : ~Succeeded(log[i])

Returned == pc = "done" /\ out.kind = "ret"

Millis(sec) == (sec.num * 1000) \div sec.den
WholeMillis(sec) == (sec.num * 1000) % sec.den = 0

(* the delay in milliseconds stated for retry index i *)
StatedDelayMs(backoff, delay_ms, i) ==
    CASE backoff = "constant" -> delay_ms
      [] backoff = "linear" -> delay_ms * (i + 1)
      [] backoff = "exponential" -> delay_ms * (2 ^ i)

HasBackoffConfig ==
    /\ mode = "safe_async"
    /\ ~IsNone(config)
    /\ "retry" \in DOMAIN config
    /\ "backoff" \in DOMAIN config.retry
    /\ "delay_ms" \in DOMAIN config.retry

(* C3: the delay computed before retry index i is delay_ms (constant),     *)
(* delay_ms * (i + 1) (linear) or delay_ms * 2^i (exponential).            *)
C3_BackoffDelay ==
    (HasBackoffConfig
        /\ config.retry.backoff \in {"constant", "linear", "exponential"}) =>
        \A j \in 1..Len(delays) :
            /\ WholeMillis(delays[j])
            /\ Millis(delays[j]) =
                  StatedDelayMs(config.retry.backoff, config.retry.delay_ms, j - 1)

(* delay_ms = 100, exponential: 100 ms, then 200 ms *)
C3_Witness ==
    /\ HasBackoffConfig
    /\ config.retry.backoff = "exponential"
    /\ config.retry.delay_ms = 100
    /\ Len(delays) = 2
    /\ Millis(delays[1]) = 100
    /\ Millis(delays[2]) = 200

C3_WitnessLinear ==
    /\ HasBackoffConfig
    /\ config.retry.backoff = "linear"
    /\ config.retry.delay_ms = 1
    /\ Len(delays) = 3
    /\ Millis(delays[3]) = 3

(* the suspension events of n attempts: each attempt is a start and an     *)
(* end, and between two attempts there is one sleep (and its wake) when    *)
(* the delay computed for that retry is positive, and nothing otherwise    *)
RECURSIVE StatedTrace(_, _)
StatedTrace(n, ds) ==
    IF n = 0 THEN <<>>
    ELSE IF n = 1
         THEN <<[ev |-> "start", delay |-> Seconds(0, 1)],
                [ev |-> "end", delay |-> Seconds(0, 1)]>>
    ELSE StatedTrace(n - 1, ds)
         \o (IF ds[n - 1].num > 0
             THEN <<[ev |-> "sleep", delay |-> ds[n - 1]],
                    [ev |-> "wake", delay |-> Seconds(0, 1)]>>
             ELSE <<>>)
         \o <<[ev |-> "start", delay |-> Seconds(0, 1)],
              [ev |-> "end", delay |-> Seconds(0, 1)]>>

DelayMsOmitted ==
    \/ ~Truthy(config)
    \/ "retry" \notin DOMAIN config
    \/ "delay_ms" \notin DOMAIN config.retry

(* C4: safe_async suspends for backoff exactly once before each retry      *)
(* whose computed delay is positive, and nowhere else: not before the      *)
(* first attempt, not after the last attempt or after an Ok, and not when  *)
(* the computed delay is 0 (as when delay_ms is omitted).                  *)
C4_SleepOnlyBeforeRetry ==
    mode = "safe_async" =>
        /\ (pc = "done") => trace = StatedTrace(Len(opLog), delays)
        /\ (pc = "sleep") => /\ Len(delays) = Len(opLog)
                             /\ delays[Len(delays)].num > 0
                             /\ ~Succeeded(Last(opLog))
                             /\ Last(trace).ev = "sleep"
        /\ Len(delays) <= Len(opLog)
        /\ \A j \in 1..Len(delays) : ~Succeeded(opLog[j])
        /\ \A i \in 1..Len(trace) :
              trace[i].ev = "sleep" =>
                  /\ i > 2
                  /\ trace[i - 1].ev = "end"
                  /\ trace[i].delay.num > 0
        /\ DelayMsOmitted => \A i \in 1..Len(trace) : trace[i].ev # "sleep"

(* three failed attempts with a positive delay: a sleep before each of the *)
(* two retries and none after the last attempt                             *)
C4_Witness ==
    /\ mode = "safe_async"
    /\ pc = "done"
    /\ Len(opLog) = 3
    /\ Len(SelectSeq(trace, LAMBDA e : e.ev = "sleep")) = 2
    /\ Last(trace).ev = "end"

C4_WitnessZeroDelay ==
    /\ mode = "safe_async"
    /\ pc = "done"
    /\ Len(opLog) = 3
    /\ delays[1].num = 0
    /\ Len(SelectSeq(trace, LAMBDA e : e.ev = "sleep")) = 0

(* ---- combinator chains ---- *)
OnOkOnly == {"map", "tap", "tap_async", "and_then", "and_then_async"}

OpsOfChain == {hist[i].op : i \in 1..Len(hist)}

(* C5: a combinator applied to the variant it does not act on never        *)
(* invokes its callback and returns a result equal to the source: any      *)
(* sequence of map, tap, tap_async, and_then and and_then_async calls on   *)
(* Err(e), in any calling form, invokes no callback and ends in Err(e);    *)
(* map_err on Ok(v) likewise.                                              *)
C5_PassThrough ==
    (mode = "chain" /\ hist # <<>>
        /\ \/ is_err(src) /\ OpsOfChain \subseteq OnOkOnly
           \/ is_ok(src) /\ OpsOfChain = {"map_err"}) =>
        /\ calls = <<>>
        /\ pc = "chain"
        /\ out.kind = "ret"
        /\ Result_eq(out.val, src)
        /\ Result_eq(cur, src)

(* Err(e).and_then(f) followed by the curried map(g) *)
C5_Witness ==
    /\ mode = "chain"
    /\ is_err(src)
    /\ Len(hist) = 2
    /\ hist[1].op = "and_then" /\ hist[1].form = "method"
    /\ hist[2].op = "map" /\ hist[2].form = "curried"
    /\ calls = <<>>
    /\ Result_eq(cur, src)

C5_WitnessMapErr ==
    /\ mode = "chain"
    /\ is_ok(src)
    /\ Len(hist) = 2
    /\ OpsOfChain = {"map_err"}
    /\ hist[2].form = "direct"
    /\ Result_eq(cur, src)

(* the latest combinator call invoked a callback that raised *)
CallbackRaised ==
    /\ mode = "chain"
    /\ hist # <<>>
    /\ Last(hist).op \notin {"serialize", "hydrate", "hydrate_as"}
    /\ \E i \in 1..Len(out.calls) : out.calls[i].raised

(* C6: a fault raised by a callback inside a combinator (method or free    *)
(* function form) reaches the caller as a Panic, never as the raw fault    *)
(* and never as an Err value.                                              *)
C6_CallbackFaultIsPanic ==
    CallbackRaised => (out.kind = "raise" /\ is_panic(out.val))

(* a value that is a Panic or an error whose cause is a Panic *)
WrapsPanic(v) ==
    \/ is_panic(v)
    \/ IsTagged(v) /\ is_panic(get_cause(v))

(* C7: no operation returns an Err whose payload is or wraps a Panic       *)
(* raised during that operation.                                           *)
C7_PanicNeverBecomesErr ==
    (out.kind = "ret" /\ IsResult(out.val) /\ is_err(out.val)) =>
        ~WrapsPanic(out.val.value)

InSafe == mode \in {"safe", "safe_async"}

(* C8: with a bare operation safe / safe_async never raise for a fault of  *)
(* the operation: an attempt yields Ok(value) when the operation returns   *)
(* value, and Err(UnhandledException(fault)), tagged "UnhandledException"  *)
(* with the raw fault as cause, when it raises fault.                      *)
C8_BareOperation ==
    (InSafe /\ callable(thunk)) =>
        /\ out.kind # "raise"
        /\ calls = <<>>
        /\ opLog # <<>> =>
              LET o == Last(opLog)
              IN  IF Succeeded(o)
                  THEN is_ok(result) /\ result.value = o.val
                  ELSE /\ is_err(result)
                       /\ is_tagged_error(result.value)
                       /\ result.value.tag = "UnhandledException"
                       /\ get_cause(result.value) = o.val
        /\ pc = "done" => out.val = result

C8_Witness ==
    /\ InSafe
    /\ callable(thunk)
    /\ pc = "done"
    /\ Len(opLog) = 2
    /\ ~Succeeded(Last(opLog))
    /\ is_err(out.val)
    /\ out.val.value.tag = "UnhandledException"
    /\ get_cause(out.val.value) = Exc("IOError", "disk")

(* the attempts of the log that failed, in order *)
Failures(log) == SelectSeq(log, LAMBDA o : ~Succeeded(o))

(* C9: with a {try, catch} pair an attempt yields Ok(value) when try       *)
(* returns value and Err(catch(fault)) when try raises fault; catch is     *)
(* invoked exactly once per failed attempt, with that attempt's fault, and *)
(* never for an attempt that succeeds.                                     *)
C9_TryCatchPair ==
    (InSafe /\ ~callable(thunk) /\ ~IsNone(thunk)) =>
        LET fails == Failures(opLog)
        IN  /\ Len(calls) = Len(fails)
            /\ \A i \in 1..Len(calls) :
                  /\ calls[i].fn = thunk.catch.fn
                  /\ calls[i].arg = fails[i].val
            /\ (opLog # <<>> /\ out.kind # "raise") =>
                  LET o == Last(opLog)
                  IN  IF Succeeded(o)
                      THEN is_ok(result) /\ result.value = o.val
                      ELSE /\ is_err(result)
                           /\ result.value =
                                 CallBody(thunk.catch.fn, o.val, 0).val
            /\ Returned => out.val = result

C9_Witness ==
    /\ mode = "safe"
    /\ ~callable(thunk)
    /\ thunk.catch = Fn("wrap")
    /\ Returned
    /\ Len(opLog) = 3
    /\ Succeeded(opLog[3])
    /\ Len(calls) = 2
    /\ calls[1].arg # calls[2].arg

C9_WitnessAsync ==
    /\ mode = "safe_async"
    /\ ~callable(thunk)
    /\ Returned
    /\ Len(opLog) = 2
    /\ is_err(out.val)
    /\ out.val.value.tag = "MyError"
    /\ Len(calls) = 2

(* what the non-raising callbacks compute *)
Pure(name, n) == IF name = "double" THEN 2 * n ELSE n + 1
NonRaising == {"double", "inc"}

IsMapUnwrap ==
    /\ mode = "chain"
    /\ is_ok(src)
    /\ Len(hist) >= 2
    /\ Last(hist).op = "unwrap"
    /\ \A i \in 1..(Len(hist) - 1) :
          hist[i].op = "map" /\ hist[i].fn.fn \in NonRaising

(* C10: Ok(v).map(f).unwrap() == f(v) with f invoked exactly once, and     *)
(* chained maps compose left to right: Ok(v).map(f).map(g).unwrap() ==     *)
(* g(f(v)).                                                                *)
C10_MapThenUnwrap ==
    IsMapUnwrap =>
        /\ out.kind = "ret"
        /\ Len(calls) = Len(hist) - 1
        /\ Len(hist) = 2 =>
              /\ out.val = PyInt(Pure(hist[1].fn.fn, src.value.int))
              /\ calls[1].fn = hist[1].fn.fn
              /\ calls[1].arg = src.value
        /\ Len(hist) = 3 =>
              /\ out.val = PyInt(Pure(hist[2].fn.fn,
                                      Pure(hist[1].fn.fn, src.value.int)))
              /\ calls[1].fn = hist[1].fn.fn /\ calls[1].arg = src.value
              /\ calls[2].fn = hist[2].fn.fn
              /\ calls[2].arg = PyInt(Pure(hist[1].fn.fn, src.value.int))

(* Ok(5) doubled, then incremented, unwraps to 11 *)
C10_Witness ==
    /\ IsMapUnwrap
    /\ Len(hist) = 3
    /\ src.value = PyInt(5)
    /\ hist[1].fn = Fn("double")
    /\ hist[2].fn = Fn("inc")
    /\ out = Ret(PyInt(11), <<>>)

(* ---- faults of callbacks, unwrap, match ---- *)
LastCall == Last(hist)

AfterCall(op) == mode = "chain" /\ hist # <<>> /\ LastCall.op = op

(* C11: when f raises while map is applied to an Ok, by the method, by     *)
(* map(result, f) or by map(f)(result), the Panic that reaches the caller  *)
(* has the fault raised by f as its cause.                                 *)
C11_MapPanicCause ==
    (AfterCall("map") /\ is_ok(LastCall.on) /\ out.calls # <<>>
        /\ out.calls[1].raised) =>
        /\ out.kind = "raise"
        /\ is_panic(out.val)
        /\ get_cause(out.val) = out.calls[1].val

IsSuffix(a, b) ==
    /\ Len(a) <= Len(b)
    /\ \A i \in 1..Len(a) : a[i] = b[Len(b) - Len(a) + i]

(* C12: unwrap returns the held value on Ok and fails with a Panic on Err, *)
(* unwrap_err the other way round; the Panic message is the supplied       *)
(* message verbatim whenever one is supplied, for every string, and        *)
(* otherwise a default message that embeds a representation of the held    *)
(* value.                                                                  *)
C12_UnwrapMessage ==
    (AfterCall("unwrap") \/ AfterCall("unwrap_err")) =>
        LET self == LastCall.on
            message == LastCall.fn
            succeeds == (LastCall.op = "unwrap") <=> is_ok(self)
        IN  IF succeeds
            THEN out = Ret(self.value, <<>>)
            ELSE /\ out.kind = "raise"
                 /\ is_panic(out.val)
                 /\ IF message # None
                    THEN out.val.message = message
                    ELSE /\ IsSuffix(repr(self.value).str, out.val.message.str)
                         /\ Len(out.val.message.str) > Len(repr(self.value).str)

(* the handler of the active variant is present in the matcher *)
ActiveKey(r) == IF is_ok(r) THEN "ok" ELSE "err"

(* C13: Result.match invokes exactly the handler of the active variant,    *)
(* exactly once, with the held value, and returns that handler's result;   *)
(* the handler of the other variant is never invoked.                      *)
C13_MatchActiveHandler ==
    (AfterCall("match") /\ ActiveKey(LastCall.on) \in DOMAIN LastCall.fn) =>
        LET self == LastCall.on
            handler == LastCall.fn[ActiveKey(self)]
        IN  /\ Len(out.calls) = 1
            /\ out.calls[1].fn = handler.fn
            /\ out.calls[1].arg = self.value
            /\ ~out.calls[1].raised =>
                  /\ out = Ret(out.calls[1].val, out.calls)
                  /\ out.val = IF is_ok(self) THEN PyInt(2 * self.value.int)
                               ELSE PyInt(self.value.int + 1)

(* match(handlers)(Err(v)) with both handlers returns err(v) *)
C13_Witness ==
    /\ AfterCall("match")
    /\ LastCall.form = "curried"
    /\ is_err(LastCall.on)
    /\ LastCall.fn = [ok |-> Fn("double"), err |-> Fn("inc")]
    /\ out.kind = "ret"
    /\ out.val = PyInt(LastCall.on.value.int + 1)
    /\ Len(out.calls) = 1

(* ---- serialize / hydrate ---- *)
JsonSafe(v) == IsInt(v) \/ "str" \in DOMAIN v \/ v = None

(* the last call hydrated what the call before it serialized *)
RoundTrip ==
    /\ Len(hist) >= 2
    /\ hist[Len(hist) - 1].op = "serialize"
    /\ LastCall.op = "hydrate"

Serialized == hist[Len(hist) - 1].on

(* C14: for every JSON-safe value v, hydrate(Ok(v).serialize()) == Ok(v)   *)
(* and hydrate(Err(v).serialize()) == Err(v).                              *)
C14_RoundTrip ==
    (RoundTrip /\ JsonSafe(Serialized.value)) =>
        /\ out.kind = "ret"
        /\ Result_eq(Serialized, out.val)

(* an Err holding a string comes back equal, as a new object *)
C14_Witness ==
    /\ RoundTrip
    /\ Serialized = cur
    /\ is_err(cur)
    /\ cur.value = S("Error")
    /\ IsResult(out.val)
    /\ out.val.value = S("Error")
    /\ out.val.oid # cur.oid

C14_WitnessOkInt ==
    /\ RoundTrip
    /\ Serialized = Ok(PyInt(ExampleVal), Serialized.oid)
    /\ IsResult(out.val)
    /\ is_ok(out.val)

(* hydrate / hydrate_as has returned, on a serialized dict or any object *)
AfterWire(op) ==
    mode \in {"chain", "wire"} /\ hist # <<>> /\ LastCall.op = op

(* the wire shape, as the specification words it *)
HasKey(data, k) == IsDict(data) /\ k \in DOMAIN data.dict
StatusIs(data, text) ==
    HasKey(data, "status") /\ HasKey(data, "value") /\ data.dict["status"] = S(text)

(* C15: hydrate(data) never fails: it returns Ok(value) when data is an    *)
(* object with both status and value and status "ok", Err(value) when the  *)
(* status is "err", and None for every other input.                        *)
C15_HydrateShape ==
    AfterWire("hydrate") =>
        LET data == LastCall.on
        IN  /\ out.kind = "ret"
            /\ out.calls = <<>>
            /\ IF StatusIs(data, "ok")
                   THEN IsResult(out.val) /\ is_ok(out.val)
                        /\ out.val.value = data.dict["value"]
               ELSE IF StatusIs(data, "err")
                   THEN IsResult(out.val) /\ is_err(out.val)
                        /\ out.val.value = data.dict["value"]
               ELSE out.val = None

(* a dict with status and value whose status is another string is absent *)
C15_Witness ==
    /\ mode = "wire"
    /\ AfterWire("hydrate")
    /\ LastCall.on = PyDict([status |-> S("pending"), value |-> PyInt(1)])
    /\ out = Ret(None, <<>>)

C15_WitnessErr ==
    /\ mode = "wire"
    /\ AfterWire("hydrate")
    /\ StatusIs(LastCall.on, "err")
    /\ "extra" \in DOMAIN LastCall.on.dict
    /\ IsResult(out.val)
    /\ is_err(out.val)

(* C16: hydrate_as applies only the decoder of the status, at most once,   *)
(* and returns Ok(decoded) or Err(decoded); when the decoder raises it     *)
(* returns an Err holding the raised fault, also for status "ok"; for an   *)
(* unrecognized shape it returns None and invokes no decoder.              *)
C16_HydrateAs ==
    AfterWire("hydrate_as") =>
        LET data == LastCall.on
            wire == StatusIs(data, "ok") \/ StatusIs(data, "err")
            decoder == IF StatusIs(data, "ok") THEN LastCall.fn.ok
                       ELSE LastCall.fn.err
        IN  /\ out.kind = "ret"
            /\ IF ~wire THEN out = Ret(None, <<>>)
               ELSE /\ Len(out.calls) = 1
                    /\ out.calls[1].fn = decoder.fn
                    /\ out.calls[1].arg = data.dict["value"]
                    /\ IsResult(out.val)
                    /\ out.val.value = out.calls[1].val
                    /\ is_ok(out.val) <=>
                          (StatusIs(data, "ok") /\ ~out.calls[1].raised)

(* an "ok" dict whose decoder raises comes back as an Err of the fault *)
C16_Witness ==
    /\ AfterWire("hydrate_as")
    /\ StatusIs(LastCall.on, "ok")
    /\ LastCall.fn.ok = Fn("raise")
    /\ out.kind = "ret"
    /\ IsResult(out.val)
    /\ is_err(out.val)
    /\ IsPlainExc(out.val.value)
    /\ out.calls[1].raised

C16_WitnessDecoded ==
    /\ AfterWire("hydrate_as")
    /\ StatusIs(LastCall.on, "err")
    /\ LastCall.fn.err = Fn("double")
    /\ LastCall.on.dict["value"] = PyInt(1)
    /\ IsResult(out.val)
    /\ out.val = Err(PyInt(2), out.val.oid)

(* ---- tagged errors ---- *)
AfterErrorCall(op) == mode = "error" /\ hist # <<>> /\ LastCall.op = op

HasHandler == LastCall.on.tag \in DOMAIN LastCall.fn

(* the text occurs in a str as one of its pieces *)
Contains(string, text) == \E i \in 1..Len(string.str) : string.str[i] = text

(* C17: TaggedError.match(error, handlers) invokes handlers[error.tag]     *)
(* exactly once with the error and returns its result when an entry for    *)
(* the tag exists; with no entry for the tag it fails with a message       *)
(* containing the tag and invokes no handler.                              *)
C17_TaggedMatch ==
    AfterErrorCall("TaggedError.match") =>
        LET error == LastCall.on
        IN  IF HasHandler
            THEN /\ Len(out.calls) = 1
                 /\ out.calls[1].fn = LastCall.fn[error.tag].fn
                 /\ out.calls[1].arg = error
                 /\ ~out.calls[1].raised => out = Ret(out.calls[1].val, out.calls)
            ELSE /\ out.kind = "raise"
                 /\ out.calls = <<>>
                 /\ is_error(out.val)
                 /\ Contains(str(out.val), error.tag)

(* no entry for the tag: a ValueError naming the tag *)
C17_Witness ==
    /\ AfterErrorCall("TaggedError.match")
    /\ ~HasHandler
    /\ LastCall.fn # EmptyDict
    /\ LastCall.on.tag = "Panic"
    /\ out.kind = "raise"
    /\ out.val.exc = "ValueError"
    /\ out.val.msg = [str |-> <<"No handler for error tag: ", "Panic">>]

C17_WitnessHandled ==
    /\ AfterErrorCall("TaggedError.match")
    /\ HasHandler
    /\ LastCall.fn[LastCall.on.tag] = Fn("message_of")
    /\ out = Ret(S("something failed"), out.calls)
    /\ Len(out.calls) = 1

(* C18: TaggedError.match_partial(error, handlers, otherwise) never fails  *)
(* for a missing handler: it returns handlers[error.tag](error) when an    *)
(* entry for the tag exists, otherwise not being invoked, and              *)
(* otherwise(error) when none exists.                                      *)
C18_MatchPartial ==
    AfterErrorCall("TaggedError.match_partial") =>
        LET error == LastCall.on
            chosen == IF HasHandler THEN LastCall.fn[error.tag]
                      ELSE LastCall.otherwise
        IN  /\ Len(out.calls) = 1
            /\ out.calls[1].fn = chosen.fn
            /\ out.calls[1].arg = error
            /\ ~out.calls[1].raised => out = Ret(out.calls[1].val, out.calls)
            /\ out.kind = "raise" => out.calls[1].raised

(* match_partial(err, {}, fallback) returns fallback(err) *)
C18_Witness ==
    /\ AfterErrorCall("TaggedError.match_partial")
    /\ LastCall.fn = EmptyDict
    /\ LastCall.otherwise = Fn("wrap")
    /\ out.kind = "ret"
    /\ IsTagged(out.val)
    /\ get_cause(out.val) = LastCall.on

C18_WitnessHandled ==
    /\ AfterErrorCall("TaggedError.match_partial")
    /\ HasHandler
    /\ LastCall.otherwise = Fn("raise")
    /\ out.kind = "ret"
    /\ out.calls[1].fn # "raise"

(* the mode a constructor call asks for: no cause (left out, or None),     *)
(* an exception cause, or a value cause                                    *)
CauseMode(arg) ==
    IF arg = Omitted \/ arg = None THEN "NoCause"
    ELSE IF is_error(arg) THEN "ExceptionCause"
    ELSE "ValueCause"

(* what a caller can read from an error: its tag, its message, __cause__   *)
(* and the two slots behind __cause__                                      *)
Observed(e) ==
    [tag |-> e.tag, message |-> e.message, cause |-> get_cause(e),
     slot |-> e.non_exception_cause, chained |-> e.cause]

(* C19: the cause of a TaggedError is introspectable in three              *)
(* distinguishable modes: an error constructed with no cause, with an      *)
(* exception cause and with a value cause are observably different, so     *)
(* every construction that is observed as this error asked for its mode.   *)
C19_CauseModes ==
    (mode = "error" /\ pc = "error") =>
        \A arg \in CauseArgs :
            Observed(TaggedError(src.tag, cur.message, cause_param(arg)))
                    = Observed(cur)
                => CauseMode(arg) = CauseMode(src.cause)

(* ---- free functions and methods ---- *)
MirroredOps ==
    {"map", "map_err", "tap", "tap_async", "and_then", "and_then_async", "match"}

SameValue(x, y) == IF IsResult(x) THEN Result_eq(x, y) ELSE x = y

(* the same returned value, or a Panic in each case *)
SameOutcome(a, b) ==
    \/ a.kind = "ret" /\ b.kind = "ret" /\ SameValue(a.val, b.val)
    \/ a.kind = "raise" /\ b.kind = "raise" /\ is_panic(a.val) /\ is_panic(b.val)

(* C20: the module-level free functions mirror the methods in both calling *)
(* forms: map(r, f), map(f)(r) and r.map(f) have the same outcome (the     *)
(* same returned Result, or a Panic in each case), and likewise map_err,   *)
(* tap, tap_async, and_then, and_then_async and match.                     *)
C20_FreeMirrorsMethod ==
    (mode = "chain" /\ hist # <<>> /\ LastCall.op \in MirroredOps
        /\ LastCall.form # "method") =>
        SameOutcome(out, Invoke(LastCall.op, "method", LastCall.on,
                                LastCall.fn, nextId))

(* ---- sources are not mutated ---- *)
(* the Results seen during a chain, in order: the one constructed, the one *)
(* each call was made on, and the current one                              *)
Seen ==
    <<src>> \o [i \in 1..Len(hist) |-> hist[i].on] \o <<cur>>
        \o (IF out.kind = "ret" THEN <<out.val>> ELSE <<>>)

(* C21: no combinator or terminal operation mutates its source: after any  *)
(* sequence of calls on a Result, the variant and held value of every      *)
(* instance are still the ones it was constructed with.                    *)
C21_SourceNotMutated ==
    mode = "chain" =>
        \A i, j \in 1..Len(Seen) :
            (IsResult(Seen[i]) /\ IsResult(Seen[j]) /\ Seen[i].oid = Seen[j].oid)
                => (Seen[i].status = Seen[j].status /\ Seen[i].value = Seen[j].value)

(* Err(e) after map_err and a terminal call: the source is still Err(e)    *)
(* and the mapped Err is another instance                                  *)
C21_Witness ==
    /\ mode = "chain"
    /\ pc = "done"
    /\ Len(hist) = 2
    /\ hist[1].op = "map_err"
    /\ hist[1].on = src
    /\ is_err(src)
    /\ hist[2].on.oid # src.oid
    /\ hist[2].on.value # src.value
    /\ hist[2].op \in {"unwrap_or", "serialize", "match", "unwrap_err"}

C21_WitnessSameInstance ==
    /\ mode = "chain"
    /\ Len(hist) = 2
    /\ hist[1].op = "tap"
    /\ hist[2].on.oid = src.oid
    /\ hist[2].op = "map"
    /\ cur.oid # src.oid
    /\ cur.value # src.value

(* ---- equality and hash ---- *)
(* C22: two Results are equal iff they are the same variant and their held *)
(* values are equal, Ok(x) never equals Err(x), and equal Results have     *)
(* equal hashes.                                                           *)
C22_EqualityAndHash ==
    AfterCall("__eq__") =>
        LET self == LastCall.on
            other == LastCall.fn
        IN  /\ out.val.eq <=>
                  (IsResult(other) /\ self.status = other.status
                      /\ self.value = other.value)
            /\ out.val.eq => out.val.hash = out.val.other_hash

(* Ok(1) compared with Err(1): not equal *)
C22_Witness ==
    /\ AfterCall("__eq__")
    /\ LastCall.on.status = "ok"
    /\ IsResult(LastCall.fn)
    /\ LastCall.fn.status = "err"
    /\ LastCall.on.value = LastCall.fn.value
    /\ ~out.val.eq

(* two instances holding the same value: equal, with equal hashes *)
C22_WitnessEqual ==
    /\ AfterCall("__eq__")
    /\ IsResult(LastCall.fn)
    /\ LastCall.fn.oid # LastCall.on.oid
    /\ out.val.eq
    /\ out.val.hash = out.val.other_hash

(* ---- attempts of safe_async are sequential ---- *)
(* how many of the first k events of the trace are ev *)
Count(ev, k) == Cardinality({i \in 1..k : trace[i].ev = ev})

(* C23: within one safe_async call the attempts are strictly sequential:   *)
(* attempt j+1 starts only after attempt j has completed with Err and      *)
(* after the backoff suspension of that retry has elapsed; two attempts    *)
(* are never in flight together, and the only suspension points are the    *)
(* awaited operation and the backoff delay.                                *)
C23_SequentialAttempts ==
    mode = "safe_async" =>
        /\ \A k \in 1..Len(trace) :
              LET running == Count("start", k) - Count("end", k)
                  sleeping == Count("sleep", k) - Count("wake", k)
              IN  /\ trace[k].ev \in {"start", "end", "sleep", "wake"}
                  /\ running \in {0, 1}
                  /\ sleeping \in {0, 1}
                  /\ running + sleeping <= 1
                  /\ (trace[k].ev = "start" /\ k > 1) =>
                        /\ Count("start", k - 1) = Count("end", k - 1)
                        /\ Count("sleep", k - 1) = Count("wake", k - 1)
                        /\ ~Succeeded(opLog[Count("end", k - 1)])
        /\ (pc = "await") <=>
              (Count("start", Len(trace)) = Count("end", Len(trace)) + 1)
        /\ (pc = "sleep") <=>
              (Count("sleep", Len(trace)) = Count("wake", Len(trace)) + 1)
        /\ Count("end", Len(trace)) = Len(opLog)

(* the third attempt is in flight after two failed attempts and two        *)
(* elapsed backoff delays                                                  *)
C23_Witness ==
    /\ mode = "safe_async"
    /\ pc = "await"
    /\ Len(opLog) = 2
    /\ Count("start", Len(trace)) = 3
    /\ Count("wake", Len(trace)) = 2
    /\ trace[Len(trace) - 1].ev = "wake"

(* ---- total matchers ---- *)
(* C24: Result.match requires a total matcher: with a matcher that lacks   *)
(* the ok handler or lacks the err handler, match does not return          *)
(* normally, whichever variant is active.                                  *)
C24_TotalMatcher ==
    (AfterCall("match") /\ DOMAIN LastCall.fn # {"ok", "err"}) =>
        out.kind = "raise"

(* ---- and_then ---- *)
ResultFns == {Fn("ok_inc"), Fn("to_err")}

(* the chain so far is made of and_then calls with non-raising callbacks *)
AndThenChain ==
    /\ mode = "chain"
    /\ hist # <<>>
    /\ \A i \in 1..Len(hist) : hist[i].op = "and_then" /\ hist[i].fn \in ResultFns

(* the first call of the chain whose callback gave an Err, if any *)
FirstErr ==
    IF \E i \in 1..Len(hist) : is_ok(hist[i].on) /\ hist[i].fn = Fn("to_err")
    THEN CHOOSE i \in 1..Len(hist) :
            is_ok(hist[i].on) /\ hist[i].fn = Fn("to_err")
    ELSE 0

(* C25: for every v and non-raising f returning a Result, Ok(v).and_then(f) *)
(* invokes f exactly once with v and returns exactly f(v), an Ok or an     *)
(* Err; in a chain of and_then calls the first Err produced is the final   *)
(* result and no later callback runs.                                      *)
C25_AndThen ==
    AndThenChain =>
        /\ is_ok(LastCall.on) =>
              /\ Len(out.calls) = 1
              /\ out.calls[1].fn = LastCall.fn.fn
              /\ out.calls[1].arg = LastCall.on.value
              /\ out = Ret(out.calls[1].val, out.calls)
              /\ out.val.value = IF LastCall.fn = Fn("ok_inc")
                                 THEN PyInt(LastCall.on.value.int + 1)
                                 ELSE LastCall.on.value
              /\ is_ok(out.val) <=> LastCall.fn = Fn("ok_inc")
        /\ (is_ok(src) /\ FirstErr > 0) =>
              /\ Len(calls) = FirstErr
              /\ is_err(cur)
              /\ cur = calls[FirstErr].val

(* Ok(v).and_then(to_err).and_then(ok_inc): the Err of the first call is   *)
(* the result and the second callback has not run                          *)
C25_Witness ==
    /\ AndThenChain
    /\ is_ok(src)
    /\ Len(hist) = 2
    /\ hist[1].fn = Fn("to_err")
    /\ hist[2].fn = Fn("ok_inc")
    /\ Len(calls) = 1
    /\ is_err(cur)
    /\ cur.value = src.value

C25_WitnessOk ==
    /\ AndThenChain
    /\ is_ok(src)
    /\ Len(hist) = 2
    /\ Len(calls) = 2
    /\ is_ok(cur)
    /\ cur.value = PyInt(src.value.int + 2)

(* ---- instances returned by combinators ---- *)
Combinators ==
    {"map", "map_err", "tap", "tap_async", "and_then", "and_then_async"}

(* C26: every combinator call returns a new Result instance, distinct from *)
(* the instance it was called on, also in the pass-through cases.          *)
C26_NewInstance ==
    (mode = "chain" /\ hist # <<>> /\ LastCall.op \in Combinators
        /\ out.kind = "ret") =>
        out.val.oid # LastCall.on.oid

(* ---- the returned Result is the last attempt's ---- *)
(* C27: the Result returned by safe and safe_async is the result of the    *)
(* last attempt executed: when every attempt fails, the returned Err       *)
(* carries the fault (or catch output) of the final attempt, and results   *)
(* of earlier attempts are discarded.                                      *)
C27_LastAttemptReturned ==
    (InSafe /\ Returned) =>
        /\ out.val.oid = nextId - 1
        /\ IF Succeeded(Last(opLog))
           THEN out.val = Ok(Last(opLog).val, nextId - 1)
           ELSE /\ is_err(out.val)
                /\ IsTagged(out.val.value)
                /\ out.val.value.tag =
                      (IF callable(thunk) THEN "UnhandledException" ELSE "MyError")
                /\ get_cause(out.val.value) = Last(opLog).val
                /\ calls # <<>> => out.val.value = Last(calls).val

(* three failed attempts, the third with another fault than the first: the *)
(* Err returned carries the third                                          *)
C27_Witness ==
    /\ InSafe
    /\ Returned
    /\ Len(opLog) = 3
    /\ opLog[1].val # opLog[3].val
    /\ opLog[2].val # opLog[3].val
    /\ is_err(out.val)
    /\ get_cause(out.val.value) = opLog[3].val

C27_WitnessCatch ==
    /\ mode = "safe_async"
    /\ Returned
    /\ ~callable(thunk)
    /\ Len(opLog) = 2
    /\ Len(calls) = 2
    /\ calls[1].val # calls[2].val
    /\ out.val.value = calls[2].val

(* ---- a catch that raises ---- *)
CatchRaises ==
    /\ InSafe
    /\ ~callable(thunk)
    /\ ~IsNone(thunk)
    /\ thunk.catch = Fn("raise")
    /\ \E i \in 1..Len(opLog) : ~Succeeded(opLog[i])

(* C28: in the {try, catch} form, if catch raises while handling a failed  *)
(* attempt, safe / safe_async return no Result: the fault raised by catch  *)
(* reaches the caller unchanged and no further attempt is made, even when  *)
(* retries remain.                                                         *)
C28_CatchFaultPropagates ==
    CatchRaises =>
        /\ pc = "done"
        /\ out.kind = "raise"
        /\ out.val = Exc("ValueError", "bad callback")
        /\ Len(calls) = 1
        /\ calls[1].raised
        /\ out.val = calls[1].val
        /\ Len(opLog) = 1
        /\ result = None

(* retries remained when catch raised *)
C28_Witness ==
    /\ CatchRaises
    /\ mode = "safe"
    /\ times >= 2
    /\ Len(opLog) = 1
    /\ out.kind = "raise"
    /\ ~is_panic(out.val)

C28_WitnessAsync ==
    /\ CatchRaises
    /\ mode = "safe_async"
    /\ times >= 2
    /\ pc = "done"
    /\ Len(trace) = 2
    /\ out.kind = "raise"

(* ---- defaults of the backoff configuration ---- *)
HasRetryConfig ==
    /\ mode = "safe_async"
    /\ Truthy(config)
    /\ "retry" \in DOMAIN config

(* C29: in safe_async an omitted backoff is treated as "constant" and an   *)
(* omitted delay_ms as 0, while any backoff value other than "constant" or *)
(* "linear", an unrecognized string included, is treated as "exponential"  *)
(* (delay_ms * 2^i); no backoff value makes safe_async fail.               *)
C29_BackoffDefaults ==
    HasRetryConfig =>
        LET rc == config.retry
            d == IF "delay_ms" \in DOMAIN rc THEN rc.delay_ms ELSE 0
        IN  /\ \A j \in 1..Len(delays) :
                  /\ "backoff" \notin DOMAIN rc => delays[j] = Seconds(d, 1000)
                  /\ ("backoff" \in DOMAIN rc
                        /\ rc.backoff \notin {"constant", "linear"}) =>
                        delays[j] = Seconds(d * (2 ^ (j - 1)), 1000)
                  /\ "delay_ms" \notin DOMAIN rc => Millis(delays[j]) = 0
            /\ callable(thunk) => out.kind # "raise"
            /\ (pc = "loop" /\ ~is_ok(result)) => Len(delays) = attempt

(* an unrecognized backoff string: 100 ms, 200 ms, 400 ms *)
C29_Witness ==
    /\ HasRetryConfig
    /\ "backoff" \in DOMAIN config.retry
    /\ config.retry.backoff = "fibonacci"
    /\ "delay_ms" \in DOMAIN config.retry
    /\ config.retry.delay_ms = MaxDelayMs
    /\ Len(delays) = 3
    /\ delays[3] = Seconds(MaxDelayMs * 4, 1000)
    /\ pc = "done"
    /\ out.kind = "ret"

C29_WitnessOmitted ==
    /\ HasRetryConfig
    /\ "backoff" \notin DOMAIN config.retry
    /\ "delay_ms" \in DOMAIN config.retry
    /\ config.retry.delay_ms = 1
    /\ Len(delays) = 2
    /\ delays[2] = Seconds(1, 1000)

(* ---- dispatch on the class ---- *)
AfterTypeMatch ==
    mode = "typed" /\ hist # <<>> /\ LastCall.op = "resultpy.TaggedError.match"

(* the classes of the error's ancestor chain that have a handler *)
Registered ==
    {c \in DOMAIN LastCall.fn : isinstance(LastCall.on, c)}

(* position of a class in the resolution order of the error's class *)
MroIndex(c) ==
    LET chain == mro(type(LastCall.on))
    IN  CHOOSE i \in 1..Len(chain) : chain[i] = c

(* C30: in the type-hierarchy variant of TaggedError.match the handler     *)
(* invoked is the one registered for the most specific class of the        *)
(* error's ancestor chain (its own class first, then its ancestors in      *)
(* resolution order); the type-mismatch fault is unreachable, and the only *)
(* failure is the no-handler fault raised when no class of the chain is    *)
(* registered.                                                             *)
C30_MostSpecificHandler ==
    AfterTypeMatch =>
        LET error == LastCall.on
            handlers == LastCall.fn
        IN  /\ ~(out.kind = "raise" /\ out.calls = <<>>
                    /\ out.val.exc = "TypeError")
            /\ IF Registered = {}
               THEN /\ out.kind = "raise"
                    /\ out.calls = <<>>
                    /\ out.val.exc = "ValueError"
                    /\ Contains(out.val.msg, type(error))
               ELSE /\ Len(out.calls) = 1
                    /\ out.calls[1].arg = error
                    /\ \E c \in Registered :
                          /\ out.calls[1].fn = handlers[c].fn
                          /\ \A d \in Registered : MroIndex(c) <= MroIndex(d)
                          /\ \A d \in Registered \ {c} : ~issubclass(d, c)
                          /\ type(error) \in Registered => c = type(error)
                    /\ ~out.calls[1].raised =>
                          out = Ret(out.calls[1].val, out.calls)

(* UserNotFoundError with handlers for NotFoundError and TaggedError: the  *)
(* NotFoundError handler is invoked                                        *)
C30_Witness ==
    /\ AfterTypeMatch
    /\ type(LastCall.on) = "UserNotFoundError"
    /\ DOMAIN LastCall.fn = {"NotFoundError", "TaggedError"}
    /\ Len(out.calls) = 1
    /\ out.calls[1].fn = "message_of"
    /\ out.kind = "ret"

(* a class deriving from two registered classes: the first in resolution   *)
(* order is taken                                                          *)
C30_WitnessTwoBases ==
    /\ AfterTypeMatch
    /\ type(LastCall.on) = "ConflictError"
    /\ DOMAIN LastCall.fn = {"NotFoundError", "ValidationError"}
    /\ out.calls[1].fn = "wrap"

C30_WitnessNoHandler ==
    /\ AfterTypeMatch
    /\ LastCall.fn # EmptyDict
    /\ Registered = {}
    /\ out.kind = "raise"
    /\ out.val.msg = [str |-> <<"No handler for error type ", "ValidationError">>]

====
